---- MODULE Spec2Model ----
(***************************************************************************)
(* Tiered venue geocoding (latlong/geocode_json.py): a query built from an *)
(* attraction name and a city is resolved by Places Find Place + Details,  *)
(* then Places Text Search biased to a cached city centroid + Details,     *)
(* then the Geocoding API.  Every HTTP request is one step whose response  *)
(* (or transport/parse exception) is chosen by the provider.               *)
(***************************************************************************)
EXTENDS Integers, Sequences, FiniteSets, TLC

VARIABLES city_cache, th, probe

vars == <<city_cache, th, probe>>

(***************************************************************************)
(* Python values.  A value is a tagged record: None, a missing dict key,   *)
(* a float NaN, a string (sequence of one-character strings), an int or a  *)
(* float (small magnitudes, n).                                            *)
(***************************************************************************)
None == [t |-> "None", s |-> <<>>, n |-> 0]

Absent == [t |-> "absent", s |-> <<>>, n |-> 0]

NaN == [t |-> "nan", s |-> <<>>, n |-> 0]

Str(s) == [t |-> "str", s |-> s, n |-> 0]

IntV(n) == [t |-> "int", s |-> <<>>, n |-> n]

FloatV(n) == [t |-> "float", s |-> <<>>, n |-> n]

\* dict.get(key, default): the default replaces a missing key only
Get(v, default) == IF v.t = "absent" THEN default ELSE v

\* Python truthiness
Truthy(v) ==
    CASE v.t = "None" -> FALSE
      [] v.t = "absent" -> FALSE
      [] v.t = "str" -> v.s # <<>>
      [] v.t = "int" -> v.n # 0
      [] v.t = "float" -> v.n # 0
      [] OTHER -> TRUE

DigitChars == <<"0", "1", "2", "3", "4", "5", "6", "7", "8", "9">>

Digits == {DigitChars[i] : i \in 1..Len(DigitChars)}

UpperChars == <<"A", "B", "C", "D", "E", "F", "G", "H", "I", "J", "K", "L", "M",
                "N", "O", "P", "Q", "R", "S", "T", "U", "V", "W", "X", "Y", "Z">>

LowerChars == <<"a", "b", "c", "d", "e", "f", "g", "h", "i", "j", "k", "l", "m",
                "n", "o", "p", "q", "r", "s", "t", "u", "v", "w", "x", "y", "z">>

IsSpace(c) == c \in {" ", "\t", "\n"}

LowerChar(c) ==
    IF \E i \in 1..Len(UpperChars) : UpperChars[i] = c
    THEN LowerChars[CHOOSE i \in 1..Len(UpperChars) : UpperChars[i] = c]
    ELSE c

\* str.lower()
lower(s) == [i \in 1..Len(s) |-> LowerChar(s[i])]

RECURSIVE lstrip(_)
lstrip(s) == IF s # <<>> /\ IsSpace(Head(s)) THEN lstrip(Tail(s)) ELSE s

RECURSIVE rstrip(_)
rstrip(s) == IF s # <<>> /\ IsSpace(s[Len(s)]) THEN rstrip(SubSeq(s, 1, Len(s) - 1)) ELSE s

\* str.strip() leaving trailing whitespace in place
strip_leading_only(s) == lstrip(s)

\* str.strip()
strip(s) == rstrip(lstrip(s))

\* str(x) of a number: an int prints its digit, a float prints digit ".0"
FmtNum(v) ==
    IF v.t = "int" THEN <<DigitChars[v.n + 1]>>
    ELSE <<DigitChars[v.n + 1], ".", "0">>

\* str(x)
PyStr(v) ==
    CASE v.t = "str" -> v.s
      [] v.t = "int" -> FmtNum(v)
      [] v.t = "float" -> FmtNum(v)
      [] v.t = "nan" -> <<"n", "a", "n">>
      [] OTHER -> <<"N", "o", "n", "e">>

\* float(x) of a JSON number
float(v) == FloatV(v.n)

\* pd.isna(x) of a scalar
isna(x) == x.t \in {"None", "nan"}

\* clean_cell comparing the placeholder without lower-casing
clean_cell_case_sensitive(x) ==
    IF x.t = "None" THEN None
    ELSE IF isna(x) THEN None
    ELSE LET s == strip(PyStr(x))
         IN IF s = <<>> \/ s = <<"n", "a", "n">> THEN None ELSE Str(s)

clean_cell(x) ==
    IF x.t = "None" THEN None
    ELSE IF isna(x) THEN None
    ELSE LET s == strip(PyStr(x))
         IN IF s = <<>> \/ lower(s) = <<"n", "a", "n">> THEN None ELSE Str(s)

\* is_low_quality_address looking for a digit at the start only
\* (re.match in place of re.search)
is_low_quality_address_leading_digit(addr) ==
    IF ~Truthy(addr) \/ addr.t # "str" THEN TRUE
    ELSE ~(addr.s[1] \in Digits)

\* find.py, lines 39-46
find_is_low_quality_address(addr) ==
    IF ~Truthy(addr) \/ addr.t # "str" THEN TRUE
    ELSE ~(\E i \in 1..Len(addr.s) : addr.s[i] \in Digits)

is_low_quality_address(addr) ==
    IF ~Truthy(addr) \/ addr.t # "str" THEN TRUE
    ELSE ~(\E i \in 1..Len(addr.s) : addr.s[i] \in Digits)

\* ", ".join([v for v in [name, city] if v])
JoinQuery(name, city) ==
    IF Truthy(name) /\ Truthy(city) THEN Str(name.s \o <<",", " ">> \o city.s)
    ELSE IF Truthy(name) THEN name
    ELSE IF Truthy(city) THEN city
    ELSE Str(<<>>)

CITY_TEXTSEARCH_RADIUS_M == 50000

PLACES_TYPE == "tourist_attraction"

(***************************************************************************)
(* HTTP.  http_get_json either raises (exc # "") or returns the parsed     *)
(* body: its top-level status ("" when the key is missing) and its         *)
(* candidates / results / result entries (<<>> when missing or empty).     *)
(***************************************************************************)
NoStatus == ""

Exc(msg) == [exc |-> msg, status |-> NoStatus, items |-> <<>>]

Json(status, items) == [exc |-> "", status |-> status, items |-> items]

\* one entry of candidates / results, or the result object of Place Details
Item(place_id, geometry, lat, lng, formatted_address, name) ==
    [place_id |-> place_id, geometry |-> geometry, lat |-> lat, lng |-> lng,
     formatted_address |-> formatted_address, name |-> name]

\* data.get("status", default)
StatusOr(data, default) == IF data.status = NoStatus THEN default ELSE data.status

StreetAddr == Str(<<"1", " ", "M", "a", "i", "n">>)

LocalityAddr == Str(<<"A", "m", "s", ",", " ", "N", "L">>)

PlaceId1 == Str(<<"p", "1">>)

PlaceId2 == Str(<<"p", "2">>)

PlaceName == Str(<<"M", "u", "s">>)

ExcMsgs == {"timeout"}

Candidate(pid) == Item(pid, FALSE, Absent, Absent, Absent, Absent)

FindPlaceResponses ==
    {Exc(m) : m \in ExcMsgs} \cup
    {Json("OK", <<Candidate(PlaceId1)>>), Json("OK", <<Candidate(Absent)>>),
     Json("OK", <<>>), Json("ZERO_RESULTS", <<>>), Json(NoStatus, <<>>)}

TextSearchResponses ==
    {Exc(m) : m \in ExcMsgs} \cup
    {Json("OK", <<Candidate(PlaceId2)>>), Json("OK", <<Candidate(Absent)>>),
     Json("OK", <<>>), Json("ZERO_RESULTS", <<>>)}

DetailsResponses ==
    {Exc(m) : m \in ExcMsgs} \cup
    {Json("NOT_FOUND", <<>>), Json("OK", <<>>)} \cup
    {Json("OK", <<Item(Absent, TRUE, FloatV(1), FloatV(2), a, PlaceName)>>) :
        a \in {StreetAddr, LocalityAddr, Absent}} \cup
    {Json("OK", <<Item(Absent, TRUE, Absent, FloatV(2), a, PlaceName)>>) :
        a \in {StreetAddr, LocalityAddr}}

GeocodeResponses ==
    {Exc(m) : m \in ExcMsgs} \cup
    {Json("ZERO_RESULTS", <<>>), Json("OK", <<>>),
     Json("OK", <<Item(Absent, FALSE, Absent, Absent, LocalityAddr, Absent)>>),
     Json("OK", <<Item(Absent, TRUE, IntV(4), IntV(5), LocalityAddr, Absent)>>),
     Json("OK", <<Item(Absent, TRUE, FloatV(6), FloatV(7), StreetAddr, Absent)>>),
     Json("OK", <<Item(Absent, TRUE, FloatV(6), Absent, LocalityAddr, Absent)>>)}

(***************************************************************************)
(* Result records and the adapters' decision logic.                        *)
(***************************************************************************)
Record(lat, lng, addr, rname, status, source, pid) ==
    [latitude |-> lat, longitude |-> lng, formatted_address |-> addr,
     resolved_name |-> rname, status |-> status, source |-> source, place_id |-> pid]

FailureRecord(status, source) == Record(None, None, None, None, status, source, None)

\* an unassigned local variable
NoRecord == FailureRecord("", "")

Raise(msg) == [kind |-> "raise", exc |-> msg, val |-> NoRecord]

ReturnNone == [kind |-> "None", exc |-> "", val |-> NoRecord]

ReturnDict(rec) == [kind |-> "dict", exc |-> "", val |-> rec]

place_details(place_id, resp) ==
    IF resp.exc # "" THEN Raise(resp.exc)
    ELSE IF resp.status = "OK" THEN
        IF resp.items = <<>> THEN Raise("'result'")
        ELSE LET res == resp.items[1]
             IN IF ~res.geometry THEN Raise("'geometry'")
                ELSE ReturnDict(Record(Get(res.lat, None), Get(res.lng, None),
                                       Get(res.formatted_address, Str(<<>>)),
                                       Get(res.name, Str(<<>>)),
                                       "success", "places_details", place_id))
    ELSE ReturnNone

\* findplace_then_details up to its details call: TRUE when the search
\* response leads to place_details(pid)
findplace_has_pid(resp) ==
    /\ resp.exc = ""
    /\ resp.status = "OK"
    /\ resp.items # <<>>
    /\ resp.items[1].place_id.t # "absent"

\* findplace_then_details when no details call is made
findplace_no_details(resp) ==
    IF resp.exc # "" THEN FailureRecord("Exception: " \o resp.exc, "places_findplace")
    ELSE IF resp.status = "OK" /\ resp.items # <<>>
         THEN FailureRecord("Exception: " \o "'place_id'", "places_findplace")
         ELSE FailureRecord("not_found_in_places:" \o StatusOr(resp, "UNKNOWN"),
                            "places_findplace")

\* lines 112-114 returning the details record without retagging it
findplace_after_details_untagged(data, details) ==
    IF details.kind = "raise"
    THEN FailureRecord("Exception: " \o details.exc, "places_findplace")
    ELSE IF details.kind = "dict" /\ details.val.status = "success"
         THEN details.val
         ELSE FailureRecord("not_found_in_places:" \o StatusOr(data, "UNKNOWN"),
                            "places_findplace")

\* findplace_then_details after place_details(pid) came back
findplace_after_details(data, details) ==
    IF details.kind = "raise"
    THEN FailureRecord("Exception: " \o details.exc, "places_findplace")
    ELSE IF details.kind = "dict" /\ details.val.status = "success"
         THEN [details.val EXCEPT !.source = "places_findplace"]
         ELSE FailureRecord("not_found_in_places:" \o StatusOr(data, "UNKNOWN"),
                            "places_findplace")

\* the value places_text_search_place_id returns when its request does not raise
places_text_search_place_id(resp) ==
    IF resp.status = "OK" /\ resp.items # <<>>
    THEN Get(resp.items[1].place_id, None)
    ELSE None

geocode_fallback(resp) ==
    IF resp.exc # "" THEN FailureRecord("Exception: " \o resp.exc, "geocoding_api")
    ELSE IF resp.status = "OK" /\ resp.items # <<>> THEN
        LET res == resp.items[1]
        IN IF ~res.geometry
           THEN FailureRecord("Exception: " \o "'geometry'", "geocoding_api")
           ELSE Record(Get(res.lat, None), Get(res.lng, None),
                       Get(res.formatted_address, None), None,
                       "success", "geocoding_api", None)
    ELSE FailureRecord("Error: " \o StatusOr(resp, "UNKNOWN"), "geocoding_api")

(***************************************************************************)
(* The resolver of latlong/find.py, which keeps no cache.  Its records     *)
(* carry venue_name and no place_id.  Each function is given the responses *)
(* the provider makes to the requests it issues.                           *)
(***************************************************************************)
FindRecord(lat, lng, addr, vname, status, source) ==
    [latitude |-> lat, longitude |-> lng, formatted_address |-> addr,
     venue_name |-> vname, status |-> status, source |-> source]

FindFailureRecord(status, source) == FindRecord(None, None, None, None, status, source)

NoFindRecord == FindFailureRecord("", "")

FindRaise(msg) == [kind |-> "raise", exc |-> msg, val |-> NoFindRecord]

FindReturnNone == [kind |-> "None", exc |-> "", val |-> NoFindRecord]

FindReturnDict(rec) == [kind |-> "dict", exc |-> "", val |-> rec]

\* find.py, lines 29-36
find_clean_cell(x) ==
    IF isna(x) THEN None
    ELSE LET s == strip(PyStr(x))
         IN IF s = <<>> \/ lower(s) = <<"n", "a", "n">> THEN None ELSE Str(s)

\* find.py, lines 98-121
find_place_details(resp) ==
    IF resp.exc # "" THEN FindRaise(resp.exc)
    ELSE IF resp.status = "OK" THEN
        IF resp.items = <<>> THEN FindRaise("'result'")
        ELSE LET res == resp.items[1]
             IN IF ~res.geometry THEN FindRaise("'geometry'")
                ELSE FindReturnDict(FindRecord(Get(res.lat, None), Get(res.lng, None),
                                               Get(res.formatted_address, Str(<<>>)),
                                               Get(res.name, Str(<<>>)),
                                               "success", "places_details"))
    ELSE FindReturnNone

\* find.py, lines 58-95: search is the response to the Find Place request,
\* details the response to the Place Details request made for its first
\* candidate
find_venue_with_places_findplace(search, details) ==
    IF search.exc # "" THEN FindFailureRecord("Exception: " \o search.exc, "places_findplace")
    ELSE IF search.status = "OK" /\ search.items # <<>> THEN
        IF search.items[1].place_id.t = "absent"
        THEN FindFailureRecord("Exception: " \o "'place_id'", "places_findplace")
        ELSE LET d == find_place_details(details)
             IN IF d.kind = "raise"
                THEN FindFailureRecord("Exception: " \o d.exc, "places_findplace")
                ELSE IF d.kind = "dict" /\ d.val.status = "success"
                     THEN [d.val EXCEPT !.source = "places_findplace"]
                     ELSE FindFailureRecord("not_found_in_places:" \o StatusOr(search, "UNKNOWN"),
                                            "places_findplace")
    ELSE FindFailureRecord("not_found_in_places:" \o StatusOr(search, "UNKNOWN"),
                           "places_findplace")

\* find.py, lines 124-146: the value returned when the request does not raise
find_places_text_search_place_id(resp) ==
    IF resp.status = "OK" /\ resp.items # <<>>
    THEN Get(resp.items[1].place_id, None)
    ELSE None

\* find.py, lines 149-185
geocode_venue(resp) ==
    IF resp.exc # "" THEN FindFailureRecord("Exception: " \o resp.exc, "geocoding_api")
    ELSE IF resp.status = "OK" /\ resp.items # <<>> THEN
        LET res == resp.items[1]
        IN IF ~res.geometry
           THEN FindFailureRecord("Exception: " \o "'geometry'", "geocoding_api")
           ELSE FindRecord(Get(res.lat, None), Get(res.lng, None),
                           Get(res.formatted_address, None), None,
                           "success", "geocoding_api")
    ELSE FindFailureRecord("Error: " \o StatusOr(resp, "UNKNOWN"), "geocoding_api")

\* find.py, lines 224-243: what get_venue_location does with the text search
\* response and, when the search names a place, its details response
find_tier2(o) ==
    IF o.textsearch.exc # "" THEN FindRaise(o.textsearch.exc)
    ELSE IF ~Truthy(find_places_text_search_place_id(o.textsearch))
         THEN FindReturnDict(geocode_venue(o.geocode))
         ELSE LET details == find_place_details(o.details2)
              IN IF details.kind = "raise" THEN details
                 ELSE IF /\ details.kind = "dict"
                         /\ details.val.status = "success"
                         /\ ~find_is_low_quality_address(details.val.formatted_address)
                      THEN FindReturnDict([details.val EXCEPT !.source = "places_textsearch"])
                      ELSE IF details.kind = "dict" /\ details.val.status = "success"
                           THEN FindReturnDict([details.val EXCEPT
                                                    !.source = "places_textsearch_low_quality"])
                           ELSE FindReturnDict(geocode_venue(o.geocode))

\* find.py, lines 218-222: the location parameter of the text search
find_city_location(city_clean, o) ==
    IF ~Truthy(city_clean) THEN None
    ELSE LET c == geocode_venue(o.city_geocode)
         IN IF c.status = "success" /\ c.latitude.t # "None" /\ c.longitude.t # "None"
            THEN Str(PyStr(c.latitude) \o <<",">> \o PyStr(c.longitude))
            ELSE None

\* find.py, lines 188-243: o holds the provider's response to each request
\* the call may issue
get_venue_location(venue_name, city, o) ==
    LET venue_name_clean == find_clean_cell(venue_name)
        city_clean == find_clean_cell(city)
        result == find_venue_with_places_findplace(o.findplace, o.details1)
    IN IF ~Truthy(venue_name_clean) /\ ~Truthy(city_clean)
       THEN FindReturnDict(FindFailureRecord("skipped-empty", "none"))
       ELSE IF /\ result.status = "success"
               /\ ~find_is_low_quality_address(result.formatted_address)
            THEN FindReturnDict(result)
            ELSE find_tier2(o)

(***************************************************************************)
(* State.  city_cache is the dict shared by all resolutions of a run       *)
(* (city string -> pair of floats).  th[t] holds the frame of the          *)
(* resolve_attraction call of caller t: its arguments, its locals, its     *)
(* position pc, the requests it has issued so far (calls), and what the    *)
(* caller remembers of its previous call (prev_city, prev_centroid).       *)
(***************************************************************************)
EmptyCache == [c \in {} |-> <<>>]

AttractionCells == {None, Str(<<" ">>), Str(<<"M">>)}

CityCells == {None, Str(<<"N", "a", "N">>), Str(<<"P">>), Str(<<" ", "P">>), Str(<<"Q">>)}

\* get_city_latlng returning None
NoPair == <<>>

Frame(prev_city, prev_centroid) ==
    [pc |-> "idle", attraction_name |-> None, city_name |-> None,
     name |-> None, city |-> None, query |-> None,
     data |-> Json(NoStatus, <<>>), pid |-> None,
     r1 |-> NoRecord, r |-> NoRecord, latlng |-> NoPair, city_loc |-> None,
     result |-> NoRecord, exc |-> "", calls |-> <<>>,
     cache0 |-> EmptyCache, centroid |-> "none",
     prev_city |-> prev_city, prev_centroid |-> prev_centroid]

\* one issued request and its response
Request(tier, api, arg, location, radius, type, resp) ==
    [tier |-> tier, api |-> api, arg |-> arg, location |-> location,
     radius |-> radius, type |-> type, resp |-> resp]

\* a request without location, radius or type parameter ("" = no type)
Plain(tier, api, arg, resp) == Request(tier, api, arg, Absent, Absent, "", resp)

SkippedRecord == FailureRecord("skipped-empty", "none")

\* line 231 never returning the tier-1 result
tier1_returns_never(r1) == FALSE

\* line 231 with the quality test inverted
tier1_returns_inverted(r1) ==
    r1.status = "success" /\ is_low_quality_address(r1.formatted_address)

\* line 231 without the quality test
tier1_returns_any_success(r1) == r1.status = "success"

\* line 231: the tier-1 result is returned as it is
tier1_returns(r1) ==
    r1.status = "success" /\ ~is_low_quality_address(r1.formatted_address)

\* lines 232-236 trying the direct lookup a second time before moving on
after_tier1_retry(f, r1) ==
    IF tier1_returns(r1)
    THEN [f EXCEPT !.pc = "done", !.r1 = r1, !.result = r1]
    ELSE IF Len(f.calls) =< 2 /\ f.r1 = NoRecord
         THEN [f EXCEPT !.pc = "findplace", !.r1 = r1]
         ELSE [f EXCEPT !.pc = IF Truthy(f.city) THEN "get_city" ELSE "textsearch",
                        !.r1 = r1]

\* lines 235-236 resolving the centroid whether or not there is a city
after_tier1_city_always(f, r1) ==
    IF tier1_returns(r1)
    THEN [f EXCEPT !.pc = "done", !.r1 = r1, !.result = r1]
    ELSE [f EXCEPT !.pc = "get_city", !.r1 = r1]

\* lines 232-236: where resolve_attraction goes once r1 is known
after_tier1(f, r1) ==
    IF tier1_returns(r1)
    THEN [f EXCEPT !.pc = "done", !.r1 = r1, !.result = r1]
    ELSE [f EXCEPT !.pc = IF Truthy(f.city) THEN "get_city" ELSE "textsearch",
                   !.r1 = r1]

\* lines 253-256 with the two tags swapped
textsearch_source_swapped(d) ==
    IF is_low_quality_address(d.formatted_address)
    THEN "places_textsearch"
    ELSE "places_textsearch_low_quality"

\* lines 253-256 leaving the tag place_details gave the record
textsearch_source_untagged(d) == d.source

\* lines 253-256: the source tag of a tier-2 result
textsearch_source(d) ==
    IF is_low_quality_address(d.formatted_address)
    THEN "places_textsearch_low_quality"
    ELSE "places_textsearch"

\* line 204 storing whatever the geocoder returned
city_geocode_ok_always(r) == TRUE

\* line 204: the geocode result of a city is worth storing
city_geocode_ok(r) ==
    r.status = "success" /\ r.latitude.t # "None" /\ r.longitude.t # "None"

\* line 200 never finding the city
in_cache_never(cache, city) == FALSE

\* line 200
in_cache(cache, city) == city \in DOMAIN cache

\* line 251 dropping a locality-level tier-2 result
tier2_returns_street_only(d) ==
    /\ d.kind = "dict"
    /\ d.val.status = "success"
    /\ ~is_low_quality_address(d.val.formatted_address)

\* line 251 never keeping the tier-2 details
tier2_returns_never(d) == FALSE

\* line 251: the tier-2 details are returned
tier2_returns(d) == d.kind = "dict" /\ d.val.status = "success"

\* line 205 rebuilding the dict with the new entry alone
cache_store_only_latest(cache, city, r) ==
    [c \in {city} |-> <<float(r.latitude), float(r.longitude)>>]

\* line 205 with the two coordinates in the wrong order
cache_store_swapped(cache, city, r) ==
    [c \in DOMAIN cache \cup {city} |->
        IF c = city THEN <<float(r.longitude), float(r.latitude)>> ELSE cache[c]]

\* line 205
cache_store(cache, city, r) ==
    [c \in DOMAIN cache \cup {city} |->
        IF c = city THEN <<float(r.latitude), float(r.longitude)>> ELSE cache[c]]

\* line 206 returning an entry of the dict without regard to the city
cache_read_any(cache, city) == cache[CHOOSE c \in DOMAIN cache : TRUE]

\* line 206: city_cache[city]
cache_read(cache, city) == cache[city]

\* line 239
fmt_latlng(latlng) == Str(FmtNum(latlng[1]) \o <<",">> \o FmtNum(latlng[2]))

\* lines 145-150 sending the type filter only along with a location
textsearch_request_type_with_bias(query, location, radius, place_type, resp) ==
    Request("t2", "textsearch", query,
            IF Truthy(location) THEN location ELSE Absent,
            IF Truthy(location) THEN IntV(radius) ELSE Absent,
            IF Truthy(location) /\ place_type # "" THEN place_type ELSE "",
            resp)

\* lines 145-150: the parameters of the text search request
textsearch_request(query, location, radius, place_type, resp) ==
    Request("t2", "textsearch", query,
            IF Truthy(location) THEN location ELSE Absent,
            IF Truthy(location) THEN IntV(radius) ELSE Absent,
            IF place_type # "" THEN place_type ELSE "",
            resp)

\* line 249 searching once more when the first search named no place
after_textsearch_retry(f, pid) ==
    IF Truthy(pid) THEN [f EXCEPT !.pc = "details2", !.pid = pid]
    ELSE IF \A i \in 1..(Len(f.calls) - 1) : f.calls[i].api # "textsearch"
         THEN [f EXCEPT !.pc = "textsearch"]
         ELSE [f EXCEPT !.pc = "geocode"]

\* line 249: where resolve_attraction goes once the text search returned pid
after_textsearch(f, pid) ==
    IF Truthy(pid) THEN [f EXCEPT !.pc = "details2", !.pid = pid]
    ELSE [f EXCEPT !.pc = "geocode"]

\* line 260 geocoding the attraction name alone
fallback_arg_name(f) == IF Truthy(f.name) THEN f.name ELSE f.query

\* line 260 geocoding the bare city instead of the query
fallback_arg_city(f) == IF Truthy(f.city) THEN f.city ELSE f.query

\* the argument of the tier-3 geocoding call (line 260)
fallback_arg(f) == f.query

(***************************************************************************)
(* Actions: resolve_attraction, one step per HTTP request or cache access. *)
(***************************************************************************)
\* lines 211-227: a caller invokes resolve_attraction(attraction_name, city_name)
Call(t) ==
    /\ th[t].pc = "idle"
    /\ \E a \in AttractionCells, c \in CityCells :
        LET name == clean_cell(a)
            city == clean_cell(c)
            f == [th[t] EXCEPT !.attraction_name = a, !.city_name = c,
                               !.name = name, !.city = city,
                               !.cache0 = city_cache]
        IN th' = [th EXCEPT ![t] =
                    IF ~Truthy(name) /\ ~Truthy(city)
                    THEN [f EXCEPT !.pc = "done", !.result = SkippedRecord]
                    ELSE [f EXCEPT !.pc = "findplace",
                                   !.query = JoinQuery(name, city)]]
    /\ UNCHANGED city_cache

\* lines 100-110 and 115-133: the Find Place request
FindPlace(t) ==
    /\ th[t].pc = "findplace"
    /\ \E resp \in FindPlaceResponses :
        LET f == [th[t] EXCEPT !.calls = Append(@, Plain("t1", "findplace", th[t].query, resp))]
        IN th' = [th EXCEPT ![t] =
                    IF findplace_has_pid(resp)
                    THEN [f EXCEPT !.pc = "details1", !.data = resp,
                                   !.pid = resp.items[1].place_id]
                    ELSE after_tier1(f, findplace_no_details(resp))]
    /\ UNCHANGED city_cache

\* lines 111-133: the Place Details request of tier 1
FindPlaceDetails(t) ==
    /\ th[t].pc = "details1"
    /\ \E resp \in DetailsResponses :
        LET f == [th[t] EXCEPT !.calls = Append(@, Plain("t1", "details", th[t].pid, resp)),
                               !.data = Json(NoStatus, <<>>), !.pid = None]
            r1 == findplace_after_details(th[t].data, place_details(th[t].pid, resp))
        IN th' = [th EXCEPT ![t] = after_tier1(f, r1)]
    /\ UNCHANGED city_cache

\* lines 237, 200-201: get_city_latlng looks the city up
GetCity(t) ==
    /\ th[t].pc = "get_city"
    /\ th' = [th EXCEPT ![t] =
                IF in_cache(city_cache, th[t].city)
                THEN [@ EXCEPT !.pc = "textsearch", !.centroid = "hit",
                               !.latlng = city_cache[th[t].city],
                               !.city_loc = fmt_latlng(city_cache[th[t].city])]
                ELSE [@ EXCEPT !.pc = "city_geocode"]]
    /\ UNCHANGED city_cache

\* lines 203-204, 208: the Geocoding request on the bare city name
CityGeocode(t) ==
    /\ th[t].pc = "city_geocode"
    /\ \E resp \in GeocodeResponses :
        LET f == [th[t] EXCEPT !.calls = Append(@, Plain("city", "geocode", th[t].city, resp))]
            r == geocode_fallback(resp)
        IN th' = [th EXCEPT ![t] =
                    IF city_geocode_ok(r)
                    THEN [f EXCEPT !.pc = "city_store", !.r = r]
                    ELSE [f EXCEPT !.pc = "textsearch", !.centroid = "failed"]]
    /\ UNCHANGED city_cache

\* line 205: the pair is stored
CityStore(t) ==
    /\ th[t].pc = "city_store"
    /\ city_cache' = cache_store(city_cache, th[t].city, th[t].r)
    /\ th' = [th EXCEPT ![t] = [@ EXCEPT !.pc = "city_read", !.r = NoRecord,
                                         !.centroid = "stored"]]

\* lines 206, 238-239: the stored pair is read back and formatted; reading a
\* key that is not in the dict raises KeyError
CityRead(t) ==
    /\ th[t].pc = "city_read"
    /\ th' = [th EXCEPT ![t] =
                IF th[t].city \in DOMAIN city_cache
                THEN [@ EXCEPT !.pc = "textsearch",
                               !.latlng = cache_read(city_cache, th[t].city),
                               !.city_loc = fmt_latlng(cache_read(city_cache, th[t].city))]
                ELSE [@ EXCEPT !.pc = "raised", !.exc = "KeyError"]]
    /\ UNCHANGED city_cache

\* lines 241-249, 144-155: the Text Search request; an exception is not caught
TextSearch(t) ==
    /\ th[t].pc = "textsearch"
    /\ \E resp \in TextSearchResponses :
        LET f == [th[t] EXCEPT !.calls = Append(@,
                        textsearch_request(th[t].query, th[t].city_loc,
                                           CITY_TEXTSEARCH_RADIUS_M, PLACES_TYPE, resp))]
            pid == places_text_search_place_id(resp)
        IN th' = [th EXCEPT ![t] =
                    IF resp.exc # "" THEN [f EXCEPT !.pc = "raised", !.exc = resp.exc]
                    ELSE after_textsearch(f, pid)]
    /\ UNCHANGED city_cache

\* lines 250-257: the Place Details request of tier 2; an exception is not caught
TextSearchDetails(t) ==
    /\ th[t].pc = "details2"
    /\ \E resp \in DetailsResponses :
        LET f == [th[t] EXCEPT !.calls = Append(@, Plain("t2", "details", th[t].pid, resp)),
                               !.pid = None]
            d == place_details(th[t].pid, resp)
        IN th' = [th EXCEPT ![t] =
                    IF d.kind = "raise" THEN [f EXCEPT !.pc = "raised", !.exc = d.exc]
                    ELSE IF tier2_returns(d)
                    THEN [f EXCEPT !.pc = "done",
                                   !.result = [d.val EXCEPT !.source = textsearch_source(d.val)]]
                    ELSE [f EXCEPT !.pc = "geocode"]]
    /\ UNCHANGED city_cache

\* line 260: the Geocoding request on the query
GeocodeFallback(t) ==
    /\ th[t].pc = "geocode"
    /\ \E resp \in GeocodeResponses :
        th' = [th EXCEPT ![t] =
                [@ EXCEPT !.pc = "done",
                          !.calls = Append(@, Plain("t3", "geocode", fallback_arg(th[t]), resp)),
                          !.result = geocode_fallback(resp)]]
    /\ UNCHANGED city_cache

\* the caller takes the returned record and is ready for its next call
Return(t) ==
    /\ th[t].pc = "done"
    /\ th' = [th EXCEPT ![t] = Frame(th[t].city, th[t].centroid)]
    /\ UNCHANGED city_cache

(***************************************************************************)
(* The helpers on their own: probe holds one direct call of                *)
(* is_low_quality_address (both copies) or of the normalization at the     *)
(* head of resolve_attraction, with its arguments and, once done, its      *)
(* results.                                                                *)
(***************************************************************************)
MaxAddrLen == 3

MaxCellLen == 3

\* all strings of at most n characters of A
Strings(A, n) == UNION {[1..k -> A] : k \in 0..n}

AmsterdamAddr == Str(<<"A", "m", "s", "t", "e", "r", "d", "a", "m", ",", " ", "N", "e", "t", "h", "e", "r", "l", "a", "n", "d", "s">>)

MainStAddr == Str(<<"1", "2", "3", " ", "M", "a", "i", "n", " ", "S", "t", ",", " ", "A", "m", "s", "t", "e", "r", "d", "a", "m", ",", " ", "N", "e", "t", "h", "e", "r", "l", "a", "n", "d", "s">>)

Addresses ==
    {None, IntV(0), IntV(5), FloatV(1), AmsterdamAddr, MainStAddr} \cup
    {Str(s) : s \in Strings({"1", "a", " "}, MaxAddrLen)}

Cells == {None, NaN} \cup {Str(s) : s \in Strings({" ", "n", "A"}, MaxCellLen)}

\* the provider's response to each request one resolution may issue
Oracle(findplace, details1, city_geocode, textsearch, details2, geocode) ==
    [findplace |-> findplace, details1 |-> details1, city_geocode |-> city_geocode,
     textsearch |-> textsearch, details2 |-> details2, geocode |-> geocode]

NoOracle ==
    Oracle(Json(NoStatus, <<>>), Json(NoStatus, <<>>), Json(NoStatus, <<>>),
           Json(NoStatus, <<>>), Json(NoStatus, <<>>), Json(NoStatus, <<>>))

NoProbe ==
    [fn |-> "none", done |-> FALSE, addr |-> None, low |-> FALSE, low_find |-> FALSE,
     attraction_name |-> None, city_name |-> None, skip |-> FALSE, query |-> None,
     oracle |-> NoOracle, find_r1 |-> NoFindRecord, find_location |-> None,
     find_result |-> FindReturnNone]

\* is_low_quality_address(addr) of geocode_json.py and of find.py
ClassifyAddress ==
    /\ probe.fn = "is_low_quality_address"
    /\ ~probe.done
    /\ probe' = [probe EXCEPT !.done = TRUE,
                              !.low = is_low_quality_address(probe.addr),
                              !.low_find = find_is_low_quality_address(probe.addr)]
    /\ UNCHANGED <<city_cache, th>>

\* lines 213-227: the two cells are cleaned and joined into the query
NormalizeQuery ==
    /\ probe.fn = "normalize"
    /\ ~probe.done
    /\ LET name == clean_cell(probe.attraction_name)
           city == clean_cell(probe.city_name)
           skip == ~Truthy(name) /\ ~Truthy(city)
       IN probe' = [probe EXCEPT !.done = TRUE, !.skip = skip,
                                 !.query = IF skip THEN None ELSE JoinQuery(name, city)]
    /\ UNCHANGED <<city_cache, th>>

InitPure ==
    /\ city_cache = EmptyCache
    /\ th = [t \in {} |-> Frame(None, "none")]
    /\ probe \in {[NoProbe EXCEPT !.fn = "is_low_quality_address", !.addr = a] :
                        a \in Addresses}
               \cup {[NoProbe EXCEPT !.fn = "normalize", !.attraction_name = a,
                                     !.city_name = c] : a \in Cells, c \in Cells}

NextPure == ClassifyAddress \/ NormalizeQuery

SpecPure == InitPure /\ [][NextPure]_vars

Init ==
    /\ city_cache = EmptyCache
    /\ th = [t \in {1} |-> Frame(None, "none")]
    /\ probe = NoProbe

Next ==
    /\ UNCHANGED probe
    /\ \E t \in DOMAIN th :
        \/ Call(t)
        \/ FindPlace(t)
        \/ FindPlaceDetails(t)
        \/ GetCity(t)
        \/ CityGeocode(t)
        \/ CityStore(t)
        \/ CityRead(t)
        \/ TextSearch(t)
        \/ TextSearchDetails(t)
        \/ GeocodeFallback(t)
        \/ Return(t)

Spec == Init /\ [][Next]_vars

\* a step of a resolution in progress: every request carries a timeout
\* (http_get_json, timeout = 20), so it comes back or raises
Resolve ==
    /\ UNCHANGED probe
    /\ \E t \in DOMAIN th :
        \/ FindPlace(t)
        \/ FindPlaceDetails(t)
        \/ GetCity(t)
        \/ CityGeocode(t)
        \/ CityStore(t)
        \/ CityRead(t)
        \/ TextSearch(t)
        \/ TextSearchDetails(t)
        \/ GeocodeFallback(t)

FairSpec == Spec /\ WF_vars(Resolve)

(***************************************************************************)
(* Two callers sharing one cache, as a driver that runs resolve_attraction *)
(* in two threads would: the steps of the two frames interleave, each      *)
(* access to the dict being one step.  The runs explored are those in      *)
(* which each caller resolves one row of the same attraction, for one of   *)
(* two cities, and the provider gives one of the answers below.            *)
(***************************************************************************)
ConcCallers == {1, 2}

ConcCities == {Str(<<"P">>), Str(<<"Q">>)}

ConcResponses ==
    {Exc("timeout"),
     Json("ZERO_RESULTS", <<>>), Json("NOT_FOUND", <<>>),
     Json("OK", <<Candidate(PlaceId1)>>), Json("OK", <<Candidate(PlaceId2)>>),
     Json("OK", <<Item(Absent, TRUE, FloatV(1), FloatV(2), LocalityAddr, PlaceName)>>),
     Json("OK", <<Item(Absent, TRUE, IntV(4), IntV(5), LocalityAddr, Absent)>>),
     Json("OK", <<Item(Absent, TRUE, FloatV(6), FloatV(7), StreetAddr, Absent)>>)}

ConcInputs(f) ==
    /\ f.pc # "idle" =>
            /\ f.attraction_name = Str(<<"M">>)
            /\ f.city_name \in ConcCities
            /\ f.prev_city = None
    /\ \A i \in 1..Len(f.calls) : f.calls[i].resp \in ConcResponses

ConcRun == \A t \in DOMAIN th : ConcInputs(th[t])

InitConc ==
    /\ city_cache = EmptyCache
    /\ th = [t \in ConcCallers |-> Frame(None, "none")]
    /\ probe = NoProbe

NextConc == Next /\ ConcRun'

SpecConc == InitConc /\ [][NextConc]_vars

(***************************************************************************)
(* Vocabulary of the properties, stated on requests, responses and         *)
(* records without going through the resolver's own helpers.               *)
(***************************************************************************)
Frames == {th[t] : t \in DOMAIN th}

\* the text of v contains a decimal digit
HasDigit(v) ==
    /\ v.t = "str"
    /\ \E i \in 1..Len(v.s) : v.s[i] \in {"0", "1", "2", "3", "4", "5", "6", "7", "8", "9"}

\* cells that stand for "no value": missing, empty, blank, "nan" in any case
AbsentCells ==
    {None, NaN, Str(<<>>), Str(<<" ">>), Str(<<"n", "a", "n">>),
     Str(<<"N", "a", "N">>), Str(<<"N", "A", "N">>)}

\* the requests of frame f issued by the given tier through the given API
CallsOf(f, tier, api) ==
    {i \in 1..Len(f.calls) : f.calls[i].tier = tier /\ f.calls[i].api = api}

\* a search response that carries a candidate identifier
HasCandidate(resp) ==
    /\ resp.exc = ""
    /\ resp.status = "OK"
    /\ resp.items # <<>>
    /\ resp.items[1].place_id.t = "str"

\* a search response that came back without candidates
NoCandidates(resp) == resp.exc = "" /\ resp.items = <<>>

\* a details or geocode response that reports a located place
Located(resp) ==
    /\ resp.exc = ""
    /\ resp.status = "OK"
    /\ resp.items # <<>>
    /\ resp.items[1].geometry

HasCoordinates(rec) == rec.latitude.t # "None" /\ rec.longitude.t # "None"

NoCoordinates(rec) == rec.latitude = None /\ rec.longitude = None

\* C1: resolve_attraction never ends by raising: no call is ever left
\* with an exception propagating to its caller.
C1_NeverRaises == \A f \in Frames : f.pc # "raised"

\* C2: every returned record has both coordinates when its status is
\* "success" and neither otherwise.
C2_SuccessIffCoordinates ==
    \A f \in Frames :
        f.pc = "done" =>
            IF f.result.status = "success"
            THEN HasCoordinates(f.result)
            ELSE NoCoordinates(f.result)

\* C3: a call whose two cells are both absent returns the skipped-empty
\* record with source "none" and no coordinates, has issued no request,
\* and has left the city cache as it found it.
C3_SkippedEmpty ==
    \A f \in Frames :
        (f.pc # "idle" /\ f.attraction_name \in AbsentCells /\ f.city_name \in AbsentCells) =>
            /\ f.pc = "done"
            /\ f.result.status = "skipped-empty"
            /\ f.result.source = "none"
            /\ NoCoordinates(f.result)
            /\ f.calls = <<>>
            /\ city_cache = f.cache0

C3_Witness ==
    \E f \in Frames :
        /\ f.pc = "done"
        /\ f.attraction_name = Str(<<" ">>)
        /\ f.city_name = Str(<<"N", "a", "N">>)
        /\ f.result.status = "skipped-empty"
        /\ city_cache # EmptyCache

\* C4: once the direct lookup has returned a success whose address is
\* street-level, the call is over: that record is the result, with source
\* "places_findplace", only the two tier-1 requests were issued, and the
\* city cache is as the call found it.
C4_EarlyReturn ==
    \A f \in Frames :
        (f.r1.status = "success" /\ HasDigit(f.r1.formatted_address)) =>
            /\ f.pc = "done"
            /\ f.result = f.r1
            /\ f.result.source = "places_findplace"
            /\ \A i \in 1..Len(f.calls) : f.calls[i].tier = "t1"
            /\ \A i \in 1..Len(f.calls) : f.calls[i].api \notin {"textsearch", "geocode"}
            /\ city_cache = f.cache0

C4_Witness ==
    \E f \in Frames :
        /\ f.pc = "done"
        /\ f.r1.status = "success"
        /\ HasDigit(f.r1.formatted_address)
        /\ f.result = f.r1
        /\ f.city = Str(<<"P">>)
        /\ Str(<<"P">>) \notin DOMAIN city_cache

\* the tier-2 requests of a frame whose text search named a candidate and
\* whose details fetch located it
Tier2Located(f) ==
    /\ \E i \in CallsOf(f, "t2", "textsearch") : HasCandidate(f.calls[i].resp)
    /\ \E i \in CallsOf(f, "t2", "details") : Located(f.calls[i].resp)

Tier2Place(f) ==
    f.calls[CHOOSE i \in CallsOf(f, "t2", "details") : TRUE].resp.items[1]

\* C5: when the direct lookup succeeded with a locality-level address and
\* the text search's candidate has a street-level address, the result is
\* the text-search record with source "places_textsearch", and no tier-3
\* geocoding request was issued.
C5_Fallthrough ==
    \A f \in Frames :
        (/\ f.r1.status = "success"
         /\ ~HasDigit(f.r1.formatted_address)
         /\ Tier2Located(f)
         /\ HasDigit(Tier2Place(f).formatted_address)) =>
            /\ f.pc = "done"
            /\ f.result.status = "success"
            /\ f.result.source = "places_textsearch"
            /\ f.result.formatted_address = Tier2Place(f).formatted_address
            /\ CallsOf(f, "t3", "geocode") = {}

C5_Witness ==
    \E f \in Frames :
        /\ f.pc = "done"
        /\ f.r1.status = "success"
        /\ f.r1.formatted_address = LocalityAddr
        /\ Tier2Located(f)
        /\ f.result.source = "places_textsearch"
        /\ f.result.formatted_address = StreetAddr

\* C6: when the Find Place search and the text search both came back
\* without candidates, the result is what the geocoding adapter makes of
\* the response to one geocoding request on the query that tier 1 was
\* given: source "geocoding_api", the located place's fields on success,
\* the upstream status or the exception text on failure.
C6_FullFallback ==
    \A f \in Frames :
        (/\ f.pc = "done"
         /\ \E i \in CallsOf(f, "t1", "findplace") : NoCandidates(f.calls[i].resp)
         /\ \E i \in CallsOf(f, "t2", "textsearch") : NoCandidates(f.calls[i].resp)) =>
            LET last == f.calls[Len(f.calls)]
                g == last.resp
            IN /\ last.tier = "t3"
               /\ last.api = "geocode"
               /\ last.arg = f.calls[1].arg
               /\ last.location = Absent
               /\ Cardinality(CallsOf(f, "t3", "geocode")) = 1
               /\ f.result.source = "geocoding_api"
               /\ Located(g) =>
                    /\ f.result.status = "success"
                    /\ f.result.latitude = Get(g.items[1].lat, None)
                    /\ f.result.longitude = Get(g.items[1].lng, None)
                    /\ f.result.formatted_address = g.items[1].formatted_address
               /\ ~Located(g) =>
                    /\ f.result.status # "success"
                    /\ NoCoordinates(f.result)
                    /\ g.exc # "" => f.result.status = "Exception: " \o g.exc
                    /\ (g.exc = "" /\ g.items = <<>> /\ g.status # "") =>
                            f.result.status = "Error: " \o g.status

C6_Witness ==
    \E f \in Frames :
        /\ f.pc = "done"
        /\ \E i \in CallsOf(f, "t1", "findplace") : NoCandidates(f.calls[i].resp)
        /\ \E i \in CallsOf(f, "t2", "textsearch") : NoCandidates(f.calls[i].resp)
        /\ f.name # None
        /\ f.city # None
        /\ f.result.status = "success"
        /\ f.result.source = "geocoding_api"

\* C7: when the text search's candidate is located but its address is
\* locality-level, the result is that record, a success keeping the
\* coordinates of the details response, with source
\* "places_textsearch_low_quality", and no tier-3 request was issued.
C7_LowQualityKept ==
    \A f \in Frames :
        (Tier2Located(f) /\ ~HasDigit(Tier2Place(f).formatted_address)) =>
            /\ f.pc = "done"
            /\ f.result.status = "success"
            /\ f.result.source = "places_textsearch_low_quality"
            /\ f.result.latitude = Get(Tier2Place(f).lat, None)
            /\ f.result.longitude = Get(Tier2Place(f).lng, None)
            /\ CallsOf(f, "t3", "geocode") = {}

C7_Witness ==
    \E f \in Frames :
        /\ f.pc = "done"
        /\ Tier2Located(f)
        /\ Tier2Place(f).formatted_address = LocalityAddr
        /\ f.result.source = "places_textsearch_low_quality"
        /\ HasCoordinates(f.result)

\* C8: a resolution in which the direct lookup produced a success with a
\* coordinate pair returns a success with coordinates.
C8_NeverDiscarded ==
    \A f \in Frames :
        (f.pc = "done" /\ f.r1.status = "success" /\ HasCoordinates(f.r1)) =>
            (f.result.status = "success" /\ HasCoordinates(f.result))

\* the centroid geocoding requests of the caller's previous resolution
\* (its lookup either stored a pair or failed after one request) and of
\* the current one
PrevCentroidCalls(f) == IF f.prev_centroid \in {"stored", "failed"} THEN 1 ELSE 0

CurCentroidCalls(f) == Cardinality(CallsOf(f, "city", "geocode"))

SameCityAsBefore(f) == f.pc # "idle" /\ f.city # None /\ f.city = f.prev_city

\* C9 as stated: two consecutive resolutions with the same city issue at
\* most one geocoding request on the bare city name between them.
C9_AtMostOneCentroidCall ==
    \A f \in Frames :
        SameCityAsBefore(f) => PrevCentroidCalls(f) + CurCentroidCalls(f) =< 1

\* C9 amended: two consecutive resolutions with the same city issue at
\* most one geocoding request on the bare city name between them unless
\* the first one's request failed; each resolution issues at most one,
\* and none once the previous resolution obtained the centroid.
C9_AtMostOneSuccessfulCentroidCall ==
    \A f \in Frames :
        SameCityAsBefore(f) =>
            /\ CurCentroidCalls(f) =< 1
            /\ f.prev_centroid # "failed" => PrevCentroidCalls(f) + CurCentroidCalls(f) =< 1
            /\ f.prev_centroid \in {"stored", "hit"} =>
                    /\ CurCentroidCalls(f) = 0
                    /\ f.centroid \in {"none", "hit"}

C9_Witness ==
    \E f \in Frames :
        /\ SameCityAsBefore(f)
        /\ f.prev_centroid = "stored"
        /\ f.centroid = "hit"
        /\ f.pc = "done"
        /\ CurCentroidCalls(f) = 0

\* a geocode response from which no coordinate pair can be taken
CentroidFailure(resp) ==
    \/ ~Located(resp)
    \/ resp.items[1].lat.t \in {"absent", "None"}
    \/ resp.items[1].lng.t \in {"absent", "None"}

\* C10: after a centroid request that did not succeed, the lookup has
\* returned absent (no location bias) and the cache is exactly as the
\* resolution found it, without the city; and a resolution that follows a
\* failed lookup of the same city never takes the centroid from the cache
\* without asking the geocoder again.
C10_FailureNotCached ==
    \A f \in Frames :
        /\ (\E i \in CallsOf(f, "city", "geocode") : CentroidFailure(f.calls[i].resp)) =>
                /\ f.pc \in {"textsearch", "details2", "geocode", "done", "raised"}
                /\ f.centroid = "failed"
                /\ f.city_loc = None
                /\ city_cache = f.cache0
                /\ f.city \notin DOMAIN city_cache
        /\ (SameCityAsBefore(f) /\ f.prev_centroid = "failed") =>
                /\ f.centroid # "hit"
                /\ f.pc \in {"textsearch", "details2", "geocode", "raised"} =>
                        CurCentroidCalls(f) = 1

C10_Witness ==
    \E f \in Frames :
        /\ SameCityAsBefore(f)
        /\ f.prev_centroid = "failed"
        /\ f.centroid = "stored"
        /\ f.pc = "textsearch"
        /\ f.city \in DOMAIN city_cache
        /\ f.city_loc # None

\* the pair of floats a geocode response gives for a city
ResponsePair(resp) ==
    <<[t |-> "float", s |-> <<>>, n |-> resp.items[1].lat.n],
      [t |-> "float", s |-> <<>>, n |-> resp.items[1].lng.n]>>

\* C11: a lookup of a city that is a key of the cache returns the stored
\* pair, issues no request and leaves the cache as it was; a lookup that
\* misses and whose geocode succeeds stores the response's pair under the
\* city, leaves every other entry alone and returns that same pair.
C11_HitAndStore ==
    \A f \in Frames :
        /\ f.centroid = "hit" =>
                /\ f.city \in DOMAIN f.cache0
                /\ f.latlng = f.cache0[f.city]
                /\ CurCentroidCalls(f) = 0
                /\ city_cache = f.cache0
        /\ (f.pc \in {"textsearch", "details2", "geocode", "done", "raised"}
            /\ \E i \in CallsOf(f, "city", "geocode") : ~CentroidFailure(f.calls[i].resp)) =>
                LET resp == f.calls[CHOOSE i \in CallsOf(f, "city", "geocode") : TRUE].resp
                IN /\ f.city \notin DOMAIN f.cache0
                   /\ DOMAIN city_cache = DOMAIN f.cache0 \cup {f.city}
                   /\ city_cache[f.city] = ResponsePair(resp)
                   /\ \A c \in DOMAIN f.cache0 : city_cache[c] = f.cache0[c]
                   /\ f.latlng = ResponsePair(resp)

C11_Witness ==
    \E f \in Frames :
        /\ f.pc = "done"
        /\ f.centroid = "hit"
        /\ f.prev_centroid = "stored"
        /\ f.prev_city # f.city
        /\ Cardinality(DOMAIN city_cache) = 2
        /\ f.latlng = city_cache[f.city]

\* the number of calls a frame has made to each tier: the direct lookup
\* (one Find Place search, at most one details fetch), the centroid
\* resolution, the text search (at most one details fetch), the fallback
OneCallPerTier(f) ==
    /\ Cardinality(CallsOf(f, "t1", "findplace")) =< 1
    /\ Cardinality(CallsOf(f, "t1", "details")) =< 1
    /\ Cardinality(CallsOf(f, "city", "geocode")) =< 1
    /\ Cardinality(CallsOf(f, "t2", "textsearch")) =< 1
    /\ Cardinality(CallsOf(f, "t2", "details")) =< 1
    /\ Cardinality(CallsOf(f, "t3", "geocode")) =< 1

\* C12: every resolution that has started comes to an end, and at no
\* point has it called any tier more than once.
C12_TerminatesOneCallPerTier ==
    /\ [](\A f \in Frames : OneCallPerTier(f))
    /\ \A t \in {1} : (th[t].pc # "idle") ~> (th[t].pc \in {"done", "raised"})

C12_Witness ==
    \E f \in Frames :
        /\ f.pc = "done"
        /\ Cardinality(CallsOf(f, "t1", "findplace")) = 1
        /\ Cardinality(CallsOf(f, "city", "geocode")) = 1
        /\ Cardinality(CallsOf(f, "t2", "textsearch")) = 1
        /\ Cardinality(CallsOf(f, "t3", "geocode")) = 1

\* C13 as stated: a resolution issues at most three HTTP requests.
C13_AtMostThreeRequests == \A f \in Frames : Len(f.calls) =< 3

\* C13 amended: a resolution issues at most six HTTP requests, one after
\* the other: at most two for the direct lookup (search, details), one
\* city geocode, two for the text search (search, details) and one
\* geocoding fallback.
C13_AtMostSixRequests ==
    \A f \in Frames :
        /\ Len(f.calls) =< 6
        /\ Cardinality({i \in 1..Len(f.calls) : f.calls[i].tier = "t1"}) =< 2
        /\ Cardinality({i \in 1..Len(f.calls) : f.calls[i].tier = "city"}) =< 1
        /\ Cardinality({i \in 1..Len(f.calls) : f.calls[i].tier = "t2"}) =< 2
        /\ Cardinality({i \in 1..Len(f.calls) : f.calls[i].tier = "t3"}) =< 1

C13_Witness == \E f \in Frames : f.pc = "done" /\ Len(f.calls) = 6

\* a response whose body carries a status other than "OK"
Rejected(resp) == resp.exc = "" /\ resp.status \notin {"", "OK"}

\* C14: when a Find Place search, a details fetch of the direct lookup or
\* a geocode request is rejected with an upstream status, the adapter's
\* record has no coordinates and its status carries that request's
\* upstream status; no failure status carries "OK".
C14_UpstreamStatusVerbatim ==
    \A f \in Frames :
        /\ \A i \in CallsOf(f, "t1", "findplace") \cup CallsOf(f, "t1", "details") :
                (Rejected(f.calls[i].resp) /\ f.r1 # NoRecord) =>
                    /\ NoCoordinates(f.r1)
                    /\ f.r1.status = "not_found_in_places:" \o f.calls[i].resp.status
        /\ \A i \in CallsOf(f, "t3", "geocode") :
                (Rejected(f.calls[i].resp) /\ f.pc = "done") =>
                    /\ NoCoordinates(f.result)
                    /\ f.result.status = "Error: " \o f.calls[i].resp.status
        /\ f.r1.status # "not_found_in_places:OK"
        /\ f.result.status # "Error: OK"

\* C15: an exception raised by a request of the direct lookup (search or
\* details) or of the geocoding fallback becomes a record with status
\* "Exception: <message>", no coordinates and the adapter's own source
\* tag, and an exception raised by the text search request does not
\* leave the text-search adapter.
C15_AdaptersCatchExceptions ==
    \A f \in Frames :
        /\ \A i \in CallsOf(f, "t1", "findplace") \cup CallsOf(f, "t1", "details") :
                (f.calls[i].resp.exc # "" /\ f.r1 # NoRecord) =>
                    /\ f.r1.status = "Exception: " \o f.calls[i].resp.exc
                    /\ NoCoordinates(f.r1)
                    /\ f.r1.source = "places_findplace"
        /\ \A i \in CallsOf(f, "t3", "geocode") :
                f.calls[i].resp.exc # "" =>
                    /\ f.pc = "done"
                    /\ f.result.status = "Exception: " \o f.calls[i].resp.exc
                    /\ NoCoordinates(f.result)
                    /\ f.result.source = "geocoding_api"
        /\ \A i \in CallsOf(f, "t2", "textsearch") :
                f.calls[i].resp.exc # "" => f.pc # "raised"

\* C16 as stated: a resolution in which the Find Place search or the text
\* search returned a candidate issues no tier-3 geocoding request.
C16_FallbackOnlyWithoutCandidates ==
    \A f \in Frames :
        (\/ \E i \in CallsOf(f, "t1", "findplace") : HasCandidate(f.calls[i].resp)
         \/ \E i \in CallsOf(f, "t2", "textsearch") : HasCandidate(f.calls[i].resp)) =>
            CallsOf(f, "t3", "geocode") = {}

\* C16 amended: a resolution issues the tier-3 geocoding request on the
\* query only when neither place tier produced a result it returns: the
\* direct lookup did not give a street-level success and the text search
\* gave no candidate whose details fetch succeeded.  A candidate alone
\* (tier-1 locality-level or failed details, tier-2 failed details) does
\* not prevent the fallback.
C16_FallbackOnlyWithoutResult ==
    \A f \in Frames :
        /\ (f.r1.status = "success" /\ HasDigit(f.r1.formatted_address)) =>
                CallsOf(f, "t3", "geocode") = {}
        /\ Tier2Located(f) => CallsOf(f, "t3", "geocode") = {}
        /\ CallsOf(f, "t3", "geocode") # {} =>
                /\ f.pc = "done"
                /\ f.r1 # NoRecord
                /\ f.result.source = "geocoding_api"
                /\ Cardinality(CallsOf(f, "t2", "textsearch")) = 1

C16_Witness ==
    \E f \in Frames :
        /\ f.pc = "done"
        /\ \E i \in CallsOf(f, "t1", "findplace") : HasCandidate(f.calls[i].resp)
        /\ \E i \in CallsOf(f, "t2", "textsearch") : HasCandidate(f.calls[i].resp)
        /\ f.r1.status = "success"
        /\ CallsOf(f, "t3", "geocode") # {}

\* the requests that carry the query: the Find Place search, the text
\* search and the tier-3 geocode
QueryCalls(f) ==
    CallsOf(f, "t1", "findplace") \cup CallsOf(f, "t2", "textsearch")
        \cup CallsOf(f, "t3", "geocode")

\* C17: the Find Place search, the text search and the tier-3 geocode of
\* a resolution all carry the same query string; the requests of tier 1
\* and tier 3 carry no location, radius or type parameter, so nothing of
\* the city cache reaches them; the text search is the only request that
\* carries a location, and it is the centroid the lookup returned.
C17_SameQueryCentroidTier2Only ==
    \A f \in Frames :
        /\ \A i \in QueryCalls(f) : f.calls[i].arg = f.query
        /\ \A i, j \in QueryCalls(f) : f.calls[i].arg = f.calls[j].arg
        /\ \A i \in 1..Len(f.calls) :
                f.calls[i].tier \in {"t1", "t3"} =>
                    /\ f.calls[i].location = Absent
                    /\ f.calls[i].radius = Absent
                    /\ f.calls[i].type = ""
        /\ \A i \in 1..Len(f.calls) :
                f.calls[i].location # Absent =>
                    /\ f.calls[i].tier = "t2"
                    /\ f.calls[i].api = "textsearch"
                    /\ f.latlng # NoPair
                    /\ f.calls[i].location = f.city_loc

C17_Witness ==
    \E f \in Frames :
        /\ f.pc = "done"
        /\ f.name # None
        /\ f.city # None
        /\ f.cache0 # EmptyCache
        /\ CallsOf(f, "t3", "geocode") # {}
        /\ \E i \in CallsOf(f, "t2", "textsearch") : f.calls[i].location # Absent

\* C18: is_low_quality_address answers true exactly for an address that
\* is not a string, is empty, or has no decimal digit in its text; true
\* for None and "Amsterdam, Netherlands", false for
\* "123 Main St, Amsterdam, Netherlands"; and the copy of find.py gives
\* the same answer.
C18_LowQualityIffNoDigit ==
    (probe.fn = "is_low_quality_address" /\ probe.done) =>
        /\ probe.low = (probe.addr.t # "str" \/ probe.addr.s = <<>> \/ ~HasDigit(probe.addr))
        /\ HasDigit(probe.addr) => ~probe.low
        /\ probe.addr \in {None, AmsterdamAddr} => probe.low
        /\ probe.addr = MainStAddr => ~probe.low
        /\ probe.low_find = probe.low

C18_Witness ==
    /\ probe.fn = "is_low_quality_address"
    /\ probe.done
    /\ probe.addr = Str(<<"a", " ", "1">>)
    /\ ~probe.low
    /\ ~probe.low_find

Blank(c) == c \in {" ", "\t", "\n"}

\* the text of s between its first and its last non-blank character
TrimOf(s) ==
    LET solid == {i \in 1..Len(s) : ~Blank(s[i])}
    IN IF solid = {} THEN <<>>
       ELSE SubSeq(s, CHOOSE i \in solid : \A j \in solid : i =< j,
                      CHOOSE i \in solid : \A j \in solid : j =< i)

\* "nan" in any letter case
NanWord(s) ==
    /\ Len(s) = 3
    /\ s[1] \in {"n", "N"}
    /\ s[2] \in {"a", "A"}
    /\ s[3] \in {"n", "N"}

\* the text a cell contributes to the query; <<>> when the cell is absent
FieldOf(x) ==
    IF x.t # "str" THEN <<>>
    ELSE IF NanWord(TrimOf(x.s)) THEN <<>>
    ELSE TrimOf(x.s)

\* C19: each cell is trimmed and is absent when missing, empty, blank or
\* "nan" in any case; the call is skipped exactly when both are absent;
\* otherwise the query is the present fields joined by ", ", venue first,
\* a lone field standing by itself.
C19_QueryNormalization ==
    (probe.fn = "normalize" /\ probe.done) =>
        LET venue == FieldOf(probe.attraction_name)
            city == FieldOf(probe.city_name)
        IN /\ probe.skip = (venue = <<>> /\ city = <<>>)
           /\ (venue # <<>> /\ city # <<>>) =>
                    probe.query = [t |-> "str", s |-> venue \o <<",", " ">> \o city, n |-> 0]
           /\ (venue # <<>> /\ city = <<>>) => probe.query = [t |-> "str", s |-> venue, n |-> 0]
           /\ (venue = <<>> /\ city # <<>>) => probe.query = [t |-> "str", s |-> city, n |-> 0]

C19_Witness ==
    /\ probe.fn = "normalize"
    /\ probe.done
    /\ probe.attraction_name = Str(<<" ", "A", " ">>)
    /\ probe.city_name = Str(<<"n", " ", "n">>)
    /\ probe.query = Str(<<"A", ",", " ", "n", " ", "n">>)

\* C20: no step of a run removes a city from the cache or replaces the
\* pair stored for it: the cached cities only grow and each keeps the
\* first pair stored for it.
C20_CacheOnlyGrows ==
    [][\A c \in DOMAIN city_cache :
            c \in DOMAIN city_cache' /\ city_cache'[c] = city_cache[c]]_vars

C20_Witness ==
    \E f \in Frames :
        /\ f.centroid = "stored"
        /\ f.pc = "city_read"
        /\ f.cache0 # EmptyCache
        /\ DOMAIN city_cache = DOMAIN f.cache0 \cup {f.city}
        /\ f.city \notin DOMAIN f.cache0
        /\ \E c \in DOMAIN f.cache0 : city_cache[c] # city_cache[f.city]

(***************************************************************************)
(* The two resolvers side by side.  The provider is deterministic: its     *)
(* response to each request is fixed at the start (probe.oracle).  Caller  *)
(* 1 runs resolve_attraction on a row, every request getting the oracle's  *)
(* response, and get_venue_location of find.py is called on the same row   *)
(* against the same provider.                                              *)
(***************************************************************************)
DiffAttractions == {Str(<<" ">>), Str(<<"M">>)}

DiffCities == {None, Str(<<"P">>)}

DiffFindPlace ==
    {Exc("timeout"), Json("OK", <<Candidate(PlaceId1)>>), Json("OK", <<Candidate(Absent)>>),
     Json("ZERO_RESULTS", <<>>)}

DiffTextSearch ==
    {Exc("timeout"), Json("OK", <<Candidate(PlaceId2)>>), Json("OK", <<>>),
     Json("ZERO_RESULTS", <<>>)}

DiffDetails ==
    {Exc("timeout"), Json("NOT_FOUND", <<>>), Json("OK", <<>>),
     Json("OK", <<Item(Absent, TRUE, FloatV(1), FloatV(2), StreetAddr, PlaceName)>>),
     Json("OK", <<Item(Absent, TRUE, FloatV(1), FloatV(2), LocalityAddr, PlaceName)>>)}

DiffGeocode ==
    {Exc("timeout"), Json("ZERO_RESULTS", <<>>),
     Json("OK", <<Item(Absent, TRUE, IntV(4), IntV(5), LocalityAddr, Absent)>>),
     Json("OK", <<Item(Absent, TRUE, FloatV(6), Absent, StreetAddr, Absent)>>)}

\* the same request gets the same response: without an attraction name the
\* query is the city, and the tier-3 geocode repeats the city geocode
Oracles(a, c) ==
    {o \in [findplace : DiffFindPlace, details1 : DiffDetails, city_geocode : DiffGeocode,
            textsearch : DiffTextSearch, details2 : DiffDetails, geocode : DiffGeocode] :
        (JoinQuery(clean_cell(a), clean_cell(c)) = clean_cell(c)) =>
            o.city_geocode = o.geocode}

OracleAnswer(o, tier, api) ==
    CASE tier = "t1" /\ api = "findplace" -> o.findplace
      [] tier = "t1" /\ api = "details" -> o.details1
      [] tier = "city" -> o.city_geocode
      [] tier = "t2" /\ api = "textsearch" -> o.textsearch
      [] tier = "t2" /\ api = "details" -> o.details2
      [] OTHER -> o.geocode

\* resolve_attraction is called on the probe's row, with an empty cache,
\* and is answered by the oracle
FollowsOracle ==
    \A t \in DOMAIN th :
        /\ th[t].pc # "idle" =>
                /\ th[t].attraction_name = probe.attraction_name
                /\ th[t].city_name = probe.city_name
                /\ th[t].cache0 = EmptyCache
        /\ \A i \in 1..Len(th[t].calls) :
                th[t].calls[i].resp =
                    OracleAnswer(probe.oracle, th[t].calls[i].tier, th[t].calls[i].api)

\* find.py, get_venue_location(venue_name, city) against the oracle
GetVenueLocation ==
    /\ probe.fn = "resolve"
    /\ ~probe.done
    /\ probe' = [probe EXCEPT
                    !.done = TRUE,
                    !.find_r1 = find_venue_with_places_findplace(probe.oracle.findplace,
                                                                 probe.oracle.details1),
                    !.find_location = find_city_location(find_clean_cell(probe.city_name),
                                                         probe.oracle),
                    !.find_result = get_venue_location(probe.attraction_name,
                                                       probe.city_name, probe.oracle)]
    /\ UNCHANGED <<city_cache, th>>

InitDiff ==
    /\ city_cache = EmptyCache
    /\ th = [t \in {1} |-> Frame(None, "none")]
    /\ \E a \in DiffAttractions, c \in DiffCities :
            \E o \in Oracles(a, c) :
                probe = [NoProbe EXCEPT !.fn = "resolve", !.attraction_name = a,
                                        !.city_name = c, !.oracle = o]

NextDiff == (Next /\ FollowsOracle') \/ GetVenueLocation

SpecDiff == InitDiff /\ [][NextDiff]_vars

\* C21: with two resolutions interleaving over one cache, every entry
\* written to the cache is the pair of a successful geocode of its key
\* city made by a resolution of that city, no entry is ever removed, the
\* pair a resolution takes as its bias is the cache's entry for its own
\* city, and no resolution ends in an error of the cache (the only raise
\* is that of a request of its own).
C21_ConcurrentCacheSafe ==
    /\ [][\A c \in DOMAIN city_cache' :
                (c \notin DOMAIN city_cache \/ city_cache'[c] # city_cache[c]) =>
                    \E f \in Frames :
                        /\ f.city = c
                        /\ \E i \in CallsOf(f, "city", "geocode") :
                                /\ f.calls[i].arg = c
                                /\ ~CentroidFailure(f.calls[i].resp)
                                /\ city_cache'[c] = ResponsePair(f.calls[i].resp)]_vars
    /\ [][\A c \in DOMAIN city_cache : c \in DOMAIN city_cache']_vars
    /\ [][\A t \in DOMAIN th :
                (t \in DOMAIN th' /\ th'[t].latlng # th[t].latlng /\ th'[t].latlng # NoPair) =>
                    /\ th[t].city \in DOMAIN city_cache
                    /\ th'[t].latlng = city_cache[th[t].city]]_vars
    /\ [](\A f \in Frames :
                /\ f.exc # "KeyError"
                /\ f.pc = "raised" =>
                        (f.calls # <<>> /\ f.calls[Len(f.calls)].resp.exc = f.exc))

\* two resolutions of the same city both missed the cache and both
\* stored; one of them biased its search with the pair the other stored
C21_Witness ==
    \E t, u \in DOMAIN th :
        /\ t # u
        /\ th[t].city = th[u].city
        /\ th[t].centroid = "stored"
        /\ th[u].centroid = "stored"
        /\ th[t].pc = "done"
        /\ th[u].pc = "done"
        /\ \E i \in CallsOf(th[t], "city", "geocode") :
                ResponsePair(th[t].calls[i].resp) # th[t].latlng

\* a search response with status OK and at least one candidate
SearchOk(resp) == resp.exc = "" /\ resp.status = "OK" /\ resp.items # <<>>

\* a details response with status OK
DetailsOk(resp) == resp.exc = "" /\ resp.status = "OK"

\* the direct lookup met an exception: a request raised, or a body lacked
\* the field the adapter indexes (asked: the details request was made)
DirectLookupException(search, details, asked) ==
    \/ search.exc # ""
    \/ SearchOk(search) /\ search.items[1].place_id.t # "str"
    \/ /\ asked
       /\ \/ details.exc # ""
          \/ DetailsOk(details) /\ (details.items = <<>> \/ ~details.items[1].geometry)

\* what C22 says of the record rec the adapter made of the two responses
DirectLookupContract(rec, search, details, asked) ==
    ~DirectLookupException(search, details, asked) =>
        /\ rec.status = "success" <=> (SearchOk(search) /\ asked /\ DetailsOk(details))
        /\ rec.source = "places_findplace"
        /\ rec.status # "success" => NoCoordinates(rec)

\* C22: when no exception occurs, the direct lookup adapter (of either
\* file) returns status "success" exactly when the Find Place search came
\* back OK with a candidate and the details fetch for that candidate's
\* place_id came back OK; its record always has source "places_findplace",
\* and no coordinates unless it is a success.
C22_DirectLookupSuccessIff ==
    /\ \A f \in Frames :
            f.r1 # NoRecord =>
                LET search == f.calls[1].resp
                    asked == CallsOf(f, "t1", "details") # {}
                    details == IF asked THEN f.calls[2].resp ELSE search
                IN /\ f.calls[1].api = "findplace"
                   /\ asked => (f.calls[2].api = "details"
                                /\ f.calls[2].arg = search.items[1].place_id)
                   /\ DirectLookupContract(f.r1, search, details, asked)
    /\ (probe.fn = "resolve" /\ probe.done) =>
            LET search == probe.oracle.findplace
                asked == SearchOk(search) /\ search.items[1].place_id.t = "str"
            IN DirectLookupContract(probe.find_r1, search, probe.oracle.details1, asked)

C22_Witness ==
    /\ probe.fn = "resolve"
    /\ probe.done
    /\ probe.find_r1.status = "success"
    /\ probe.find_r1.source = "places_findplace"
    /\ \E f \in Frames :
            /\ f.r1.status = "success"
            /\ f.r1.source = "places_findplace"
            /\ Len(f.calls) >= 2
            /\ DetailsOk(f.calls[2].resp)

\* C23: a returned record tagged "places_findplace" or "places_textsearch"
\* is a success whose address contains a digit; one tagged
\* "places_textsearch_low_quality" is a success whose address contains
\* none; a resolution whose direct lookup succeeded with a locality-level
\* address never returns a record tagged "places_findplace".
C23_SourceReflectsTierAndQuality ==
    \A f \in Frames :
        f.pc = "done" =>
            /\ f.result.source \in {"places_findplace", "places_textsearch"} =>
                    (f.result.status = "success" /\ HasDigit(f.result.formatted_address))
            /\ f.result.source = "places_textsearch_low_quality" =>
                    (f.result.status = "success" /\ ~HasDigit(f.result.formatted_address))
            /\ (f.r1.status = "success" /\ ~HasDigit(f.r1.formatted_address)) =>
                    (f.result.source # "places_findplace" /\ f.result # f.r1)

C23_Witness ==
    \E f \in Frames :
        /\ f.pc = "done"
        /\ f.r1.status = "success"
        /\ f.r1.formatted_address = LocalityAddr
        /\ f.result.source = "places_textsearch_low_quality"
        /\ f.result.formatted_address = LocalityAddr

\* the place of a tier in the order of evaluation
TierRank(tier) ==
    CASE tier = "t1" -> 1
      [] tier = "city" -> 2
      [] tier = "t2" -> 3
      [] OTHER -> 4

\* C24: the requests of a resolution are issued in the order of the
\* tiers: the direct lookup's first (search, then details), then the city
\* geocode, then the text search's (search, then details), then the
\* tier-3 geocode; the city geocode is issued only for a present city and
\* only once the direct lookup has ended without a street-level success;
\* the tier-3 geocode is issued only after the text search has completed.
C24_CallOrder ==
    \A f \in Frames :
        /\ \A i, j \in 1..Len(f.calls) :
                i < j => TierRank(f.calls[i].tier) =< TierRank(f.calls[j].tier)
        /\ f.calls # <<>> => (f.calls[1].tier = "t1" /\ f.calls[1].api = "findplace")
        /\ \A i, j \in 1..Len(f.calls) :
                (f.calls[i].tier = f.calls[j].tier /\ f.calls[i].api = "details"
                 /\ f.calls[j].api # "details") => j < i
        /\ \A i \in 1..Len(f.calls) :
                f.calls[i].tier # "t1" =>
                    /\ f.r1 # NoRecord
                    /\ ~(f.r1.status = "success" /\ HasDigit(f.r1.formatted_address))
        /\ \A i \in CallsOf(f, "city", "geocode") :
                /\ f.city_name \notin AbsentCells
                /\ f.calls[i].arg.t = "str"
                /\ f.calls[i].arg.s # <<>>
        /\ \A i \in CallsOf(f, "t3", "geocode") :
                \E j \in CallsOf(f, "t2", "textsearch") :
                    /\ j < i
                    /\ f.calls[j].resp.exc = ""
                    /\ HasCandidate(f.calls[j].resp) =>
                            \E k \in CallsOf(f, "t2", "details") : j < k /\ k < i

C24_Witness ==
    \E f \in Frames :
        /\ f.pc = "done"
        /\ Len(f.calls) = 6
        /\ f.calls[3].tier = "city"
        /\ f.calls[4].api = "textsearch"
        /\ f.calls[6].tier = "t3"

\* the resolution of f has a city and obtained its centroid: the city was
\* in the cache when the call began, or its geocode gave a pair
CentroidObtained(f) ==
    /\ f.city_name \notin AbsentCells
    /\ \/ f.city \in DOMAIN f.cache0
       \/ \E i \in CallsOf(f, "city", "geocode") : ~CentroidFailure(f.calls[i].resp)

\* "lat,lng" as Python prints a pair of floats
PairText(pair) ==
    [t |-> "str",
     s |-> <<DigitChars[pair[1].n + 1], ".", "0", ",", DigitChars[pair[2].n + 1], ".", "0">>,
     n |-> 0]

\* C25: a resolution that is not skipped and whose direct lookup did not
\* return a street-level success ends having issued exactly one text
\* search; every text search carries the type "tourist_attraction"; it
\* carries a location, the centroid's "lat,lng", with radius 50000 exactly
\* when the city is present and its centroid was obtained from the cache
\* or a successful geocode, and neither location nor radius otherwise.
C25_Tier2AlwaysRun ==
    \A f \in Frames :
        /\ (/\ f.pc \in {"done", "raised"}
            /\ f.result # SkippedRecord
            /\ ~(f.r1.status = "success" /\ HasDigit(f.r1.formatted_address))) =>
                Cardinality(CallsOf(f, "t2", "textsearch")) = 1
        /\ \A i \in CallsOf(f, "t2", "textsearch") :
                LET c == f.calls[i]
                IN /\ c.type = "tourist_attraction"
                   /\ c.location # Absent <=> CentroidObtained(f)
                   /\ c.location # Absent =>
                            /\ c.radius = [t |-> "int", s |-> <<>>, n |-> 50000]
                            /\ c.location = PairText(city_cache[f.city])
                   /\ c.location = Absent => c.radius = Absent

C25_Witness ==
    \E f \in Frames :
        /\ f.pc = "done"
        /\ f.city_name = Str(<<"P">>)
        /\ \E i \in CallsOf(f, "city", "geocode") : CentroidFailure(f.calls[i].resp)
        /\ \E i \in CallsOf(f, "t2", "textsearch") :
                /\ f.calls[i].location = Absent
                /\ f.calls[i].type = "tourist_attraction"

\* the source tags a caller may see
FinalSources ==
    {"places_findplace", "places_textsearch", "places_textsearch_low_quality",
     "geocoding_api", "none"}

\* C26: the source of a returned record is one of the five final tags,
\* never "places_details"; a returned record whose status is neither
\* "success" nor "skipped-empty" has source "geocoding_api", so a failure
\* record of the direct lookup is never what the resolution returns.
C26_FinalSources ==
    \A f \in Frames :
        f.pc = "done" =>
            /\ f.result.source \in FinalSources
            /\ f.result.source # "places_details"
            /\ f.result.status \notin {"success", "skipped-empty"} =>
                    f.result.source = "geocoding_api"
            /\ (f.r1 # NoRecord /\ f.r1.status # "success") => f.result # f.r1

C26_Witness ==
    \E f \in Frames :
        /\ f.pc = "done"
        /\ f.r1.source = "places_findplace"
        /\ f.r1.status = "not_found_in_places:ZERO_RESULTS"
        /\ f.result.status = "Error: ZERO_RESULTS"
        /\ f.result.source = "geocoding_api"
        /\ CallsOf(f, "t2", "details") # {}

\* C27: for the same row and the same provider responses,
\* resolve_attraction started on an empty cache and get_venue_location
\* end alike: both return, with the same status, source, latitude,
\* longitude and formatted address, or both raise the same exception.
C27_ResolversAgree ==
    \A f \in Frames :
        (/\ probe.fn = "resolve"
         /\ probe.done
         /\ f.attraction_name = probe.attraction_name
         /\ f.city_name = probe.city_name
         /\ f.cache0 = EmptyCache
         /\ f.pc \in {"done", "raised"}) =>
            IF f.pc = "raised"
            THEN /\ probe.find_result.kind = "raise"
                 /\ probe.find_result.exc = f.exc
            ELSE /\ probe.find_result.kind = "dict"
                 /\ probe.find_result.val.status = f.result.status
                 /\ probe.find_result.val.source = f.result.source
                 /\ probe.find_result.val.latitude = f.result.latitude
                 /\ probe.find_result.val.longitude = f.result.longitude
                 /\ probe.find_result.val.formatted_address = f.result.formatted_address

\* both resolvers went through a locality-level direct lookup and a city
\* geocode and returned the place the text search found
C27_Witness ==
    \E f \in Frames :
        /\ probe.fn = "resolve"
        /\ probe.done
        /\ f.pc = "done"
        /\ f.r1.status = "success"
        /\ f.centroid = "stored"
        /\ f.result.source = "places_textsearch"
        /\ probe.find_r1.status = "success"
        /\ probe.find_location # None
        /\ probe.find_result.val.source = "places_textsearch"
====
